---------------------------- MODULE Spec2Model ----------------------------
(***************************************************************************)
(* Dumb Charades Hindi Movie Game API (backend/server.py).                 *)
(*                                                                         *)
(* The state is the two MongoDB collections the handlers work on           *)
(* (db.games, db.movies), the uuid4 generator, the requests that have      *)
(* passed their first await and not yet their second, and the response     *)
(* last sent.  Every handler is one action; a handler with two awaits on   *)
(* the store (submit_turn, seed_movies, startup_event) is also given as    *)
(* its two store steps, so that requests can interleave.                   *)
(***************************************************************************)
EXTENDS Integers, Sequences, FiniteSets, Bags, TLC

VARIABLES
    games,      \* db.games: the set of stored game documents
    movies,     \* db.movies: the set of stored movie documents
    uuids,      \* number of uuid4 values generated so far
    pending,    \* bag of requests between their store read and store write
    response,   \* the response last sent by a handler
    created,    \* number of create_game requests served
    applied,    \* per stored game: turn submissions written, and how many correct
    seeds,      \* number of times the catalogue was built for insertion
    deleted     \* ids of the games delete_game has removed

vars == <<games, movies, uuids, pending, response, created, applied, seeds,
          deleted>>

(***************************************************************************)
(* Bounds of the model.                                                    *)
(***************************************************************************)
MaxRounds == 2      \* largest settings.total_rounds requested
MaxTurns == 5       \* turn submissions per game
MaxInflight == 2    \* requests between their two store operations
MaxSeeds == 2       \* seed-movies requests
MaxGames == 1       \* create_game requests
MaxUsed == 2        \* add-used-movie requests per game

Null == "null"      \* Python None / JSON null

NoResponse == [op |-> "none", status |-> 0]

(***************************************************************************)
(* Models (server.py 40-75).                                               *)
(***************************************************************************)
Player(id, name) == [id |-> id, name |-> name]

Team(name, players, score) == [name |-> name, players |-> players, score |-> score]

GameSettings(timer_seconds, total_rounds, difficulty) ==
    [timer_seconds |-> timer_seconds,
     total_rounds |-> total_rounds,
     difficulty |-> difficulty]

\* Game(...) with the field defaults of the class; id and created_at are
\* produced by their default factories.
Game(id, team_a, team_b, settings, created_at) ==
    [id |-> id,
     team_a |-> team_a,
     team_b |-> team_b,
     settings |-> settings,
     current_turn |-> "team_a",
     current_round |-> 1,
     used_movie_ids |-> << >>,
     status |-> "active",
     winner |-> Null,
     created_at |-> created_at]

\* The requests create_game is tried with.  total_rounds is a plain int in
\* CreateGameRequest: 0 is accepted like any other value.
CreateGameRequests ==
    { [team_a_players |-> <<"Rajesh", "Priya">>,
       team_b_players |-> <<"Amit", "Sunita">>,
       timer_seconds |-> 60,
       total_rounds |-> r,
       difficulty |-> "all"] : r \in 0..MaxRounds }
    \cup
    { [team_a_players |-> <<"Amit">>,
       team_b_players |-> << >>,
       timer_seconds |-> 30,
       total_rounds |-> 1,
       difficulty |-> "easy"] }

(***************************************************************************)
(* The store: find_one and update_one on a collection of documents.        *)
(***************************************************************************)
FindOne(coll, id) == {d \in coll : d.id = id}

\* update_one with upsert=True: no document matching, fields is inserted.
UpdateOneSetUpsert(coll, id, fields) ==
    IF \E d \in coll : d.id = id
      THEN { IF d.id = id
               THEN [f \in DOMAIN d |-> IF f \in DOMAIN fields THEN fields[f] ELSE d[f]]
               ELSE d : d \in coll }
      ELSE coll \cup {fields}

\* update_one({"id": id}, {"$set": fields}): the matching document gets
\* every field of fields; no document matching, nothing changes.
UpdateOneSet(coll, id, fields) ==
    { IF d.id = id
        THEN [f \in DOMAIN d |-> IF f \in DOMAIN fields THEN fields[f] ELSE d[f]]
        ELSE d : d \in coll }

GameIds == {d.id : d \in games}

Init ==
    /\ games = {}
    /\ movies = {}
    /\ uuids = 0
    /\ pending = EmptyBag
    /\ response = NoResponse
    /\ created = 0
    /\ applied = << >>
    /\ seeds = 0
    /\ deleted = {}

(***************************************************************************)
(* create_game (server.py 259-285).                                        *)
(***************************************************************************)
NewPlayers(names, base) ==
    [i \in 1..Len(names) |-> Player(base + i, names[i])]

\* NewGame with team_b built from team_a's names.
NewGameSameNames(request, base, now) ==
    LET na == Len(request.team_a_players)
        team_a == Team("Team A", NewPlayers(request.team_a_players, base), 0)
        team_b == Team("Team B", NewPlayers(request.team_a_players, base + na), 0)
        settings == GameSettings(request.timer_seconds, request.total_rounds,
                                 request.difficulty)
    IN  Game(base + na + na + 1, team_a, team_b, settings, now)

NewGame(request, base, now) ==
    LET na == Len(request.team_a_players)
        nb == Len(request.team_b_players)
        team_a == Team("Team A", NewPlayers(request.team_a_players, base), 0)
        team_b == Team("Team B", NewPlayers(request.team_b_players, base + na), 0)
        settings == GameSettings(request.timer_seconds, request.total_rounds,
                                 request.difficulty)
    IN  Game(base + na + nb + 1, team_a, team_b, settings, now)

\* The model follows one stored game at a time: every store operation of
\* the handlers filters on the game's id, so other documents are untouched.
CreateGame(request) ==
    /\ games = {}
    /\ created < MaxGames
    /\ LET game == NewGame(request, uuids, created)
       IN  /\ games' = games \cup {game}
           /\ uuids' = game.id
           /\ response' = [op |-> "create_game", status |-> 200,
                           request |-> request, body |-> game]
           /\ applied' = applied @@ (game.id :> [n |-> 0, c |-> 0])
    /\ created' = created + 1
    /\ UNCHANGED <<movies, pending, seeds, deleted>>

(***************************************************************************)
(* submit_turn (server.py 295-334).                                        *)
(***************************************************************************)
\* UpdateScore with the point given to team_a whoever is active.
UpdateScoreAlwaysA(game_obj, correct) ==
    IF correct
      THEN [game_obj EXCEPT !.team_a.score = @ + 1]
      ELSE game_obj

\* 304-309: update score if correct
UpdateScore(game_obj, correct) ==
    IF correct
      THEN IF game_obj.current_turn = "team_a"
             THEN [game_obj EXCEPT !.team_a.score = @ + 1]
             ELSE [game_obj EXCEPT !.team_b.score = @ + 1]
      ELSE game_obj

\* SwitchTurns with the round incremented on every turn.
SwitchTurnsEveryTurn(game_obj) ==
    IF game_obj.current_turn = "team_a"
      THEN [game_obj EXCEPT !.current_turn = "team_b",
                            !.current_round = @ + 1]
      ELSE [game_obj EXCEPT !.current_turn = "team_a",
                            !.current_round = @ + 1]

\* SwitchTurns with the acting player of the team that played moved to the
\* end of its players.
SwitchTurnsRotatePlayers(game_obj) ==
    LET rotate(players) ==
            IF players = << >> THEN players
            ELSE Append(Tail(players), Head(players))
    IN  IF game_obj.current_turn = "team_a"
          THEN [game_obj EXCEPT !.current_turn = "team_b",
                                !.team_a.players = rotate(@)]
          ELSE [game_obj EXCEPT !.current_turn = "team_a",
                                !.current_round = @ + 1,
                                !.team_b.players = rotate(@)]

\* 311-316: switch turns
SwitchTurns(game_obj) ==
    IF game_obj.current_turn = "team_a"
      THEN [game_obj EXCEPT !.current_turn = "team_b"]
      ELSE [game_obj EXCEPT !.current_turn = "team_a",
                            !.current_round = @ + 1]

\* Winner with a tie given to Team A.
WinnerTieToA(game_obj) ==
    IF game_obj.team_a.score >= game_obj.team_b.score THEN "Team A"
    ELSE IF game_obj.team_b.score > game_obj.team_a.score THEN "Team B"
    ELSE "Draw"

\* 321-326: the winner by the two scores
Winner(game_obj) ==
    IF game_obj.team_a.score > game_obj.team_b.score THEN "Team A"
    ELSE IF game_obj.team_b.score > game_obj.team_a.score THEN "Team B"
    ELSE "Draw"

\* CheckGameOver with the winner of a drawn game left unset.
CheckGameOverNoDraw(game_obj) ==
    IF game_obj.current_round > game_obj.settings.total_rounds
      THEN IF game_obj.team_a.score = game_obj.team_b.score
             THEN [game_obj EXCEPT !.status = "completed"]
             ELSE [game_obj EXCEPT !.status = "completed",
                                   !.winner = Winner(game_obj)]
      ELSE game_obj

\* CheckGameOver with >= in place of >: over when the last round starts.
CheckGameOverAtLastRound(game_obj) ==
    IF game_obj.current_round >= game_obj.settings.total_rounds
      THEN [game_obj EXCEPT !.status = "completed", !.winner = Winner(game_obj)]
      ELSE game_obj

\* 318-326: check if game is over
CheckGameOver(game_obj) ==
    IF game_obj.current_round > game_obj.settings.total_rounds
      THEN [game_obj EXCEPT !.status = "completed", !.winner = Winner(game_obj)]
      ELSE game_obj

\* 302-326: what the handler does to the game it read
ApplyTurn(game, correct) == CheckGameOver(SwitchTurns(UpdateScore(game, correct)))

\* The turn submissions the model still allows on a game.
Submitted(game_id) ==
    applied[game_id].n
      + BagCardinality([r \in {x \in BagToSet(pending) : x.game_id = game_id}
                          |-> CopiesIn(r, pending)])

TurnResponse(game_id, correct, game_obj) ==
    [op |-> "submit_turn", status |-> 200,
     request |-> [game_id |-> game_id, correct |-> correct], body |-> game_obj]

NotFound(op, game_id) ==
    [op |-> op, status |-> 404, request |-> [game_id |-> game_id],
     body |-> "Game not found"]

CountTurn(game_id, correct) ==
    IF game_id \in DOMAIN applied
      THEN [applied EXCEPT ![game_id] = [n |-> @.n + 1,
                                         c |-> @.c + IF correct THEN 1 ELSE 0]]
      ELSE applied

\* The handler run without another request between its read and its write.
SubmitTurn(game_id, correct) ==
    /\ pending = EmptyBag
    /\ IF FindOne(games, game_id) = {}
         THEN /\ response' = NotFound("submit_turn", game_id)
              /\ UNCHANGED <<games, applied>>
         ELSE /\ applied[game_id].n < MaxTurns
              /\ LET game == CHOOSE d \in FindOne(games, game_id) : TRUE
                     game_obj == ApplyTurn(game, correct)
                 IN  /\ games' = UpdateOneSet(games, game_id, game_obj)
                     /\ response' = TurnResponse(game_id, correct, game_obj)
              /\ applied' = CountTurn(game_id, correct)
    /\ UNCHANGED <<movies, uuids, pending, created, seeds, deleted>>

\* 298-326: find_one, then the computation on the object read.
SubmitTurnRead(game_id, correct) ==
    /\ BagCardinality(pending) < MaxInflight
    /\ IF FindOne(games, game_id) = {}
         THEN /\ response' = NotFound("submit_turn", game_id)
              /\ UNCHANGED pending
         ELSE /\ Submitted(game_id) < MaxTurns
              /\ LET game == CHOOSE d \in FindOne(games, game_id) : TRUE
                 IN  pending' = pending (+) SetToBag(
                        {[op |-> "submit_turn", game_id |-> game_id,
                          correct |-> correct,
                          game_obj |-> ApplyTurn(game, correct)]})
              /\ UNCHANGED response
    /\ UNCHANGED <<games, movies, uuids, created, applied, seeds, deleted>>

\* 328-334: update_one with the whole object, then the response.
SubmitTurnWrite(r) ==
    /\ r.op = "submit_turn"
    /\ BagIn(r, pending)
    /\ pending' = pending (-) SetToBag({r})
    /\ games' = UpdateOneSet(games, r.game_id, r.game_obj)
    /\ response' = TurnResponse(r.game_id, r.correct, r.game_obj)
    /\ applied' = CountTurn(r.game_id, r.correct)
    /\ UNCHANGED <<movies, uuids, created, seeds, deleted>>

(***************************************************************************)
(* get_game (server.py 287-293).                                           *)
(***************************************************************************)
\* get_game answering with a Game of default state in place of the document.
GetGameResponseDefaults(game_id) ==
    IF FindOne(games, game_id) = {}
      THEN NotFound("get_game", game_id)
      ELSE LET game == CHOOSE d \in FindOne(games, game_id) : TRUE
           IN  [op |-> "get_game", status |-> 200,
                request |-> [game_id |-> game_id],
                body |-> Game(game.id, game.team_a, game.team_b, game.settings,
                              game.created_at)]

GetGameResponse(game_id) ==
    IF FindOne(games, game_id) = {}
      THEN NotFound("get_game", game_id)
      ELSE [op |-> "get_game", status |-> 200,
            request |-> [game_id |-> game_id],
            body |-> CHOOSE d \in FindOne(games, game_id) : TRUE]

GetGame(game_id) ==
    /\ response' = GetGameResponse(game_id)
    /\ UNCHANGED <<games, movies, uuids, pending, created, applied, seeds, deleted>>

(***************************************************************************)
(* add_used_movie (server.py 336-345).                                     *)
(***************************************************************************)
\* $addToSet in place of $push: an id already in the list is not added.
AddToSetUsedMovie(coll, id, movie_id) ==
    { IF d.id = id /\ \A i \in 1..Len(d.used_movie_ids) : d.used_movie_ids[i] # movie_id
        THEN [d EXCEPT !.used_movie_ids = Append(@, movie_id)]
        ELSE d : d \in coll }

\* update_one({"id": id}, {"$push": {"used_movie_ids": movie_id}})
PushUsedMovie(coll, id, movie_id) ==
    { IF d.id = id
        THEN [d EXCEPT !.used_movie_ids = Append(@, movie_id)]
        ELSE d : d \in coll }

\* result.modified_count of an update_one
ModifiedCount(coll, after) == Cardinality(coll \ after)

AddUsedMovie(game_id, movie_id) ==
    /\ \A d \in FindOne(games, game_id) : Len(d.used_movie_ids) < MaxUsed
    /\ games' = PushUsedMovie(games, game_id, movie_id)
    /\ response' =
          IF ModifiedCount(games, games') = 0
            THEN NotFound("add_used_movie", game_id)
            ELSE [op |-> "add_used_movie", status |-> 200,
                  request |-> [game_id |-> game_id, movie_id |-> movie_id],
                  body |-> "Movie added to used list"]
    /\ UNCHANGED <<movies, uuids, pending, created, applied, seeds, deleted>>

(***************************************************************************)
(* delete_game (server.py 347-353).                                        *)
(***************************************************************************)
\* delete_one({"id": id})
DeleteOne(coll, id) == coll \ FindOne(coll, id)

DeleteGame(game_id) ==
    /\ games' = DeleteOne(games, game_id)
    /\ IF Cardinality(games) - Cardinality(games') = 0
         THEN /\ response' = NotFound("delete_game", game_id)
              /\ UNCHANGED deleted
         ELSE /\ response' = [op |-> "delete_game", status |-> 200,
                              request |-> [game_id |-> game_id],
                              body |-> "Game deleted"]
              /\ deleted' = deleted \cup {game_id}
    /\ applied' = [id \in DOMAIN applied \ {game_id} |-> applied[id]]
    /\ UNCHANGED <<movies, uuids, pending, created, seeds>>

\* The game ids requests are made with: the stored games', the deleted
\* games', and one no game ever had.
GameIdInputs == GameIds \cup deleted \cup {0}

\* The movie ids add_used_movie is tried with: the ids of the first two
\* catalogue entries as stored, or two ids while nothing is stored.
MovieIdInputs ==
    IF movies = {} THEN {1, 2}
    ELSE {m.id : m \in {x \in movies : x.title <= 2}}

(***************************************************************************)
(* The catalogue (server.py 79-197): 112 entries, the easy ones first,     *)
(* then the medium ones, then the hard ones.  An entry's title stands for  *)
(* its title, year, hero, heroine and genre.                               *)
(***************************************************************************)
EasyEntries == 35
MediumEntries == 37
HardEntries == 40

HINDI_MOVIES ==
    [i \in 1..(EasyEntries + MediumEntries + HardEntries) |->
        [title |-> i,
         difficulty |-> IF i <= EasyEntries THEN "easy"
                        ELSE IF i <= EasyEntries + MediumEntries THEN "medium"
                        ELSE "hard"]]

Movie(id, movie_data) ==
    [id |-> id, title |-> movie_data.title, difficulty |-> movie_data.difficulty]

\* 212-224 and 396-408: one Movie, with a fresh id, per catalogue entry
MoviesToInsert(base) ==
    {Movie(base + i, HINDI_MOVIES[i]) : i \in 1..Len(HINDI_MOVIES)}

(***************************************************************************)
(* seed_movies (server.py 205-227) and startup_event (server.py 390-411).  *)
(***************************************************************************)
SeedResponse(n) ==
    [op |-> "seed_movies", status |-> 200, body |-> n]

\* 209-224: delete_many, then the documents are built
SeedMoviesDelete ==
    /\ seeds < MaxSeeds
    /\ BagCardinality(pending) < MaxInflight
    /\ movies' = {}
    /\ pending' = pending (+) SetToBag(
          {[op |-> "seed_movies", movies_to_insert |-> MoviesToInsert(uuids)]})
    /\ uuids' = uuids + Len(HINDI_MOVIES)
    /\ seeds' = seeds + 1
    /\ UNCHANGED <<games, response, created, applied, deleted>>

\* 226-227: insert_many, then the response
SeedMoviesInsert(r) ==
    /\ r.op = "seed_movies"
    /\ BagIn(r, pending)
    /\ pending' = pending (-) SetToBag({r})
    /\ movies' = movies \cup r.movies_to_insert
    /\ response' = SeedResponse(Cardinality(r.movies_to_insert))
    /\ UNCHANGED <<games, uuids, created, applied, seeds, deleted>>

\* 393-408: count_documents; an empty collection has the documents built
StartupCount ==
    /\ seeds < MaxSeeds
    /\ BagCardinality(pending) < MaxInflight
    /\ Cardinality(movies) = 0
    /\ pending' = pending (+) SetToBag(
          {[op |-> "startup_event", movies_to_insert |-> MoviesToInsert(uuids)]})
    /\ uuids' = uuids + Len(HINDI_MOVIES)
    /\ seeds' = seeds + 1
    /\ UNCHANGED <<games, movies, response, created, applied, deleted>>

\* 410: insert_many
StartupInsert(r) ==
    /\ r.op = "startup_event"
    /\ BagIn(r, pending)
    /\ pending' = pending (-) SetToBag({r})
    /\ movies' = movies \cup r.movies_to_insert
    /\ UNCHANGED <<games, uuids, response, created, applied, seeds, deleted>>

(***************************************************************************)
(* get_random_movie (server.py 239-257).  exclude_list is the set of ids   *)
(* the comma-separated exclude_ids names; no exclude_ids is the empty set. *)
(***************************************************************************)
\* Matches with the exclusion lost when a difficulty is asked for.
MatchesExcludeLost(movie, difficulty, exclude_list) ==
    IF difficulty # "" /\ difficulty # "all"
      THEN movie.difficulty = difficulty
      ELSE exclude_list # {} => movie.id \notin exclude_list

\* Matches with $in in place of $nin.
MatchesExcludeInverted(movie, difficulty, exclude_list) ==
    /\ (difficulty # "" /\ difficulty # "all") => movie.difficulty = difficulty
    /\ exclude_list # {} => movie.id \in exclude_list

\* Matches with the difficulty filter lost when ids are excluded.
MatchesFilterLost(movie, difficulty, exclude_list) ==
    IF exclude_list # {}
      THEN movie.id \notin exclude_list
      ELSE (difficulty # "" /\ difficulty # "all") => movie.difficulty = difficulty

\* 242-249: the query the parameters make
Matches(movie, difficulty, exclude_list) ==
    /\ (difficulty # "" /\ difficulty # "all") => movie.difficulty = difficulty
    /\ exclude_list # {} => movie.id \notin exclude_list

\* The ids recorded in the used lists of the stored games.
UsedIds ==
    UNION {{g.used_movie_ids[i] : i \in 1..Len(g.used_movie_ids)} : g \in games}

\* find(query) with the movies recorded as used left out.
FindMoviesUnused(difficulty, exclude_list) ==
    {m \in movies : Matches(m, difficulty, exclude_list) /\ m.id \notin UsedIds}

\* 251: find(query)
FindMovies(difficulty, exclude_list) ==
    {m \in movies : Matches(m, difficulty, exclude_list)}

MovieRequest(difficulty, exclude_list) ==
    [difficulty |-> difficulty, exclude_list |-> exclude_list]

GetRandomMovie(difficulty, exclude_list) ==
    /\ LET found == FindMovies(difficulty, exclude_list)
       IN  IF found = {}
             THEN response' = [op |-> "get_random_movie", status |-> 404,
                               request |-> MovieRequest(difficulty, exclude_list),
                               body |-> "No movies available"]
             ELSE \E selected \in found :
                    response' = [op |-> "get_random_movie", status |-> 200,
                                 request |-> MovieRequest(difficulty, exclude_list),
                                 body |-> selected]
    /\ UNCHANGED <<games, movies, uuids, pending, created, applied, seeds, deleted>>

\* The difficulty parameters and exclusion lists get_random_movie is tried with.
Difficulties == {"easy", "medium", "hard"}

DifficultyInputs == Difficulties \cup {"all", "", "expert"}

StoredIds(ds) == {m.id : m \in {x \in movies : x.difficulty \in ds}}

ExcludeInputs ==
    {StoredIds(ds) : ds \in SUBSET Difficulties}
      \cup {{m.id} : m \in {x \in movies : x.title \in {1, Len(HINDI_MOVIES)}}}
      \cup {{0}}

\* The client takes the response.
Receive ==
    /\ response # NoResponse
    /\ response' = NoResponse
    /\ UNCHANGED <<games, movies, uuids, pending, created, applied, seeds, deleted>>

(***************************************************************************)
(* get_stats (server.py 355-370): five count_documents, each its own store *)
(* operation, then the response.                                           *)
(***************************************************************************)
\* count_documents(filter); "all" is the empty filter {}
CountDocuments(coll, filter) ==
    Cardinality({d \in coll : filter = "all" \/ d.difficulty = filter})

\* StatsFilter with the hard count made by the medium filter.
StatsFilterHardAsMedium(i) ==
    IF i = 1 THEN "all" ELSE IF i = 2 THEN "easy" ELSE "medium"

\* 358-361: the filters of the four movie counts, in the order they are made
StatsFilter(i) ==
    IF i = 1 THEN "all" ELSE IF i = 2 THEN "easy"
    ELSE IF i = 3 THEN "medium" ELSE "hard"

\* The seeding requests between their two store operations.
Seeding == {r \in BagToSet(pending) : r.op \in {"seed_movies", "startup_event"}}

StatsRequests == {r \in BagToSet(pending) : r.op = "get_stats"}

\* 358: the first count.  quiet and seeds0 record whether a seeding request
\* was in progress when the call was made and how many had started by then.
GetStatsStart ==
    /\ StatsRequests = {}
    /\ pending' = pending (+) SetToBag(
          {[op |-> "get_stats",
            counts |-> <<CountDocuments(movies, StatsFilter(1))>>,
            quiet |-> Seeding = {}, seeds0 |-> seeds]})
    /\ UNCHANGED <<games, movies, uuids, response, created, applied, seeds, deleted>>

\* 359-361: the counts by difficulty
GetStatsCount(r) ==
    /\ r.op = "get_stats"
    /\ BagIn(r, pending)
    /\ Len(r.counts) < 4
    /\ pending' = (pending (-) SetToBag({r})) (+) SetToBag(
          {[r EXCEPT !.counts =
               Append(@, CountDocuments(movies, StatsFilter(Len(r.counts) + 1)))]})
    /\ UNCHANGED <<games, movies, uuids, response, created, applied, seeds, deleted>>

\* 362-370: the count of the games, then the response.  quiet tells that no
\* seeding request was in progress at any time of the call.
GetStatsReturn(r) ==
    /\ r.op = "get_stats"
    /\ BagIn(r, pending)
    /\ Len(r.counts) = 4
    /\ pending' = pending (-) SetToBag({r})
    /\ response' = [op |-> "get_stats", status |-> 200,
                    quiet |-> r.quiet /\ seeds = r.seeds0,
                    body |-> [total_movies |-> r.counts[1],
                              easy_movies |-> r.counts[2],
                              medium_movies |-> r.counts[3],
                              hard_movies |-> r.counts[4],
                              total_games |-> Cardinality(games)]]
    /\ UNCHANGED <<games, movies, uuids, created, applied, seeds, deleted>>

(***************************************************************************)
(* Requests served one at a time.                                          *)
(***************************************************************************)
NextSeq ==
    \/ \E request \in CreateGameRequests : CreateGame(request)
    \/ \E game_id \in GameIdInputs, correct \in BOOLEAN : SubmitTurn(game_id, correct)
    \/ \E game_id \in GameIdInputs : pending = EmptyBag /\ GetGame(game_id)
    \/ \E game_id \in GameIdInputs, movie_id \in MovieIdInputs :
          pending = EmptyBag /\ AddUsedMovie(game_id, movie_id)
    \/ \E game_id \in GameIdInputs : pending = EmptyBag /\ DeleteGame(game_id)

SpecSeq == Init /\ [][NextSeq]_vars

(***************************************************************************)
(* A game and the turns submitted on it one at a time, turns being         *)
(* submitted as long as the game takes them.                               *)
(***************************************************************************)
SubmitNextTurn == \E game_id \in GameIds, correct \in BOOLEAN : SubmitTurn(game_id, correct)

NextTurns ==
    \/ \E request \in CreateGameRequests : CreateGame(request)
    \/ SubmitNextTurn

SpecTurns == Init /\ [][NextTurns]_vars /\ WF_vars(SubmitNextTurn)

(***************************************************************************)
(* Requests whose store operations interleave.                             *)
(***************************************************************************)
NextConc ==
    \/ \E request \in CreateGameRequests : CreateGame(request)
    \/ \E game_id \in GameIdInputs, correct \in BOOLEAN : SubmitTurnRead(game_id, correct)
    \/ \E r \in BagToSet(pending) : SubmitTurnWrite(r)

SpecConc == Init /\ [][NextConc]_vars

(***************************************************************************)
(* Every handler on a game, the store operations interleaving: a game of   *)
(* one round and the turns that complete it, one movie id recorded.        *)
(***************************************************************************)
NextStore ==
    \/ \E request \in {r \in CreateGameRequests :
                          r.total_rounds = 1 /\ r.team_b_players # << >>} :
          CreateGame(request)
    \/ \E game_id \in GameIdInputs, correct \in BOOLEAN :
          /\ \A d \in FindOne(games, game_id) : Submitted(game_id) < MaxTurns - 3
          /\ BagCardinality(pending) < MaxInflight - 1
          /\ SubmitTurnRead(game_id, correct)
    \/ \E r \in BagToSet(pending) : SubmitTurnWrite(r)
    \/ \E game_id \in GameIdInputs : GetGame(game_id)
    \/ \E game_id \in GameIdInputs :
          AddUsedMovie(game_id, CHOOSE movie_id \in MovieIdInputs : TRUE)
    \/ \E game_id \in GameIdInputs : DeleteGame(game_id)

SpecStore == Init /\ [][NextStore]_vars

(***************************************************************************)
(* The movie collection: seeding at startup and on request, and a client   *)
(* that asks for one random movie at a time.                               *)
(***************************************************************************)
NextMovies ==
    \/ StartupCount
    \/ \E r \in BagToSet(pending) : StartupInsert(r)
    \/ SeedMoviesDelete
    \/ \E r \in BagToSet(pending) : SeedMoviesInsert(r)
    \/ /\ response = NoResponse
       /\ \E difficulty \in DifficultyInputs, exclude_list \in ExcludeInputs :
             GetRandomMovie(difficulty, exclude_list)
    \/ Receive

SpecMovies == Init /\ [][NextMovies]_vars

(***************************************************************************)
(* The movie collection seeded at startup and on request, the seeding      *)
(* steps interleaving with those of one get_stats call at a time.          *)
(***************************************************************************)
NextStats ==
    \/ StartupCount
    \/ \E r \in BagToSet(pending) : StartupInsert(r)
    \/ SeedMoviesDelete
    \/ \E r \in BagToSet(pending) : SeedMoviesInsert(r)
    \/ \E request \in {r \in CreateGameRequests :
                          r.total_rounds = 1 /\ r.team_b_players # << >>} :
          CreateGame(request)
    \/ GetStatsStart
    \/ \E r \in BagToSet(pending) : GetStatsCount(r)
    \/ \E r \in BagToSet(pending) : GetStatsReturn(r)

SpecStats == Init /\ [][NextStats]_vars

(***************************************************************************)
(* A collection seeded once, a game that records movies as used, a client  *)
(* that asks for one random movie at a time, excluding nothing or the ids  *)
(* the game has recorded.                                                  *)
(***************************************************************************)
NextUsed ==
    \/ seeds = 0 /\ StartupCount
    \/ \E r \in BagToSet(pending) : StartupInsert(r)
    \/ \E request \in {r \in CreateGameRequests :
                          r.total_rounds = 1 /\ r.team_b_players # << >>} :
          CreateGame(request)
    \/ \E game_id \in GameIds, movie_id \in MovieIdInputs :
          AddUsedMovie(game_id, movie_id)
    \/ /\ response = NoResponse
       /\ \E difficulty \in {"easy", "all"}, exclude_list \in {{}, UsedIds} :
             GetRandomMovie(difficulty, exclude_list)
    \/ Receive

SpecUsed == Init /\ [][NextUsed]_vars

(***************************************************************************)
(* Properties.                                                             *)
(***************************************************************************)
StoredGame(game_id) == CHOOSE d \in FindOne(games, game_id) : TRUE

\* A turn submission answered 200 was the last request served.
TurnServed == response.op = "submit_turn" /\ response.status = 200

\* C1: a turn submitted while current_turn is team_a sets current_turn to
\* team_b and leaves current_round unchanged; one submitted while it is
\* team_b sets current_turn to team_a and adds exactly 1 to current_round,
\* correct or not; so after k turns on a fresh game the active team is
\* team_a iff k is even, and the round is 1 + k \div 2.
C1_TurnsAlternate ==
    [][\A game_id \in GameIds, correct \in BOOLEAN :
         SubmitTurn(game_id, correct) =>
           LET before == StoredGame(game_id)
               after == StoredGame(game_id)'
               k == applied'[game_id].n
           IN  /\ before.current_turn = "team_a" =>
                    /\ after.current_turn = "team_b"
                    /\ after.current_round = before.current_round
               /\ before.current_turn = "team_b" =>
                    /\ after.current_turn = "team_a"
                    /\ after.current_round = before.current_round + 1
               /\ after.current_turn = (IF k % 2 = 0 THEN "team_a" ELSE "team_b")
               /\ after.current_round = 1 + (k \div 2)]_vars

\* A wrong team_b turn has ended round 1.
C1_Witness ==
    /\ TurnServed
    /\ ~response.request.correct
    /\ \E g \in games : /\ g.id = response.request.game_id
                        /\ g.current_turn = "team_a"
                        /\ g.current_round = 2

\* C2: a turn with correct=true adds exactly 1 to the score of the team
\* that was active before it and leaves the other team's score unchanged;
\* a turn with correct=false leaves both scores unchanged.
C2_ScoreOfActiveTeam ==
    [][\A game_id \in GameIds, correct \in BOOLEAN :
         SubmitTurn(game_id, correct) =>
           LET before == StoredGame(game_id)
               after == StoredGame(game_id)'
               gain == IF correct THEN 1 ELSE 0
           IN  /\ before.current_turn = "team_a" =>
                    /\ after.team_a.score = before.team_a.score + gain
                    /\ after.team_b.score = before.team_b.score
               /\ before.current_turn = "team_b" =>
                    /\ after.team_b.score = before.team_b.score + gain
                    /\ after.team_a.score = before.team_a.score]_vars

\* A correct team_b turn after a wrong team_a turn.
C2_Witness ==
    /\ TurnServed
    /\ response.request.correct
    /\ \E g \in games : /\ g.id = response.request.game_id
                        /\ g.current_turn = "team_a"
                        /\ g.team_a.score = 0
                        /\ g.team_b.score = 1

\* C3: a turn submission that leaves the game with current_round >
\* settings.total_rounds leaves it completed, with winner "Team A" if
\* team_a's score is the greater, "Team B" if team_b's is, "Draw" if they
\* are equal, by the scores that count the submitted turn.
C3_WinnerOnGameOver ==
    [][\A game_id \in GameIds, correct \in BOOLEAN :
         SubmitTurn(game_id, correct) =>
           LET after == StoredGame(game_id)'
           IN  after.current_round > after.settings.total_rounds =>
                 /\ after.status = "completed"
                 /\ after.team_a.score > after.team_b.score => after.winner = "Team A"
                 /\ after.team_b.score > after.team_a.score => after.winner = "Team B"
                 /\ after.team_a.score = after.team_b.score => after.winner = "Draw"
                 /\ after = response'.body]_vars

\* The last turn of a game has levelled the scores at 1.
C3_Witness ==
    /\ TurnServed
    /\ response.request.correct
    /\ \E g \in games : /\ g.id = response.request.game_id
                        /\ g.current_round = g.settings.total_rounds + 1
                        /\ g.current_turn = "team_a"
                        /\ g.team_a.score = 1
                        /\ g.team_b.score = 1
                        /\ g.winner = "Draw"

\* C4: in every reachable state of every stored game, for every
\* total_rounds create_game accepts, status is completed iff
\* current_round > settings.total_rounds.
C4_CompletedIffRoundsOver ==
    \A g \in games :
        g.status = "completed" <=> g.current_round > g.settings.total_rounds

\* C5: in every reachable state of every stored game, winner is non-null
\* iff status is completed: null for an active game, one of "Team A",
\* "Team B", "Draw" for a completed one.
C5_WinnerIffCompleted ==
    \A g \in games :
        /\ g.winner # Null <=> g.status = "completed"
        /\ g.status = "active" => g.winner = Null
        /\ g.status = "completed" => g.winner \in {"Team A", "Team B", "Draw"}
        /\ g.status \in {"active", "completed"}

\* A drawn game was completed by a write that followed another request's read.
C5_Witness ==
    /\ TurnServed
    /\ pending # EmptyBag
    /\ \E g \in games : g.status = "completed" /\ g.winner = "Draw"

\* C6: a turn submission on a game whose status is already completed is
\* rejected or is a no-op: the stored game is the same after the call.
C6_NoTurnAfterCompleted ==
    [][\A game_id \in GameIds, correct \in BOOLEAN :
         (StoredGame(game_id).status = "completed" /\ SubmitTurn(game_id, correct))
            => games' = games]_vars

\* C7: once a stored game has status completed, no later state of that game
\* has status active, also when the store reads and writes of the requests
\* on it interleave.
C7_CompletedIsTerminal ==
    [][\A g \in games :
         g.status = "completed" =>
            \A h \in games' : h.id = g.id => h.status = "completed"]_vars

\* The flags of n turn submissions of which c were correct, in every order.
FlagOrders(n, c) ==
    {s \in [1..n -> BOOLEAN] : Cardinality({i \in 1..n : s[i]}) = c}

RECURSIVE ApplyTurns(_, _)
ApplyTurns(game, flags) ==
    IF flags = << >> THEN game
    ELSE ApplyTurns(ApplyTurn(game, Head(flags)), Tail(flags))

\* The game as create_game stored it.
AsCreated(g) ==
    [g EXCEPT !.team_a.score = 0, !.team_b.score = 0, !.current_turn = "team_a",
              !.current_round = 1, !.status = "active", !.winner = Null]

TurnState(g) ==
    <<g.team_a.score, g.team_b.score, g.current_turn, g.current_round,
      g.status, g.winner>>

\* C8: turn application is linearizable per game: with every submitted turn
\* written, the stored game is what applying those turns one after the
\* other, in some order, gives; no score change, team switch or round
\* increment is lost.
C8_TurnsLinearizable ==
    pending = EmptyBag =>
      \A g \in games :
        \E flags \in FlagOrders(applied[g.id].n, applied[g.id].c) :
            TurnState(g) = TurnState(ApplyTurns(AsCreated(g), flags))

GameFields ==
    {"id", "team_a", "team_b", "settings", "current_turn", "current_round",
     "used_movie_ids", "status", "winner", "created_at"}

TeamFields == {"name", "players", "score"}

\* What C9 says of the game created, short of the acting index and the join code.
CreatedAsRequested(game, request) ==
    /\ game.team_a.score = 0
    /\ game.team_b.score = 0
    /\ Len(game.team_a.players) = Len(request.team_a_players)
    /\ Len(game.team_b.players) = Len(request.team_b_players)
    /\ \A i \in 1..Len(request.team_a_players) :
          game.team_a.players[i].name = request.team_a_players[i]
    /\ \A i \in 1..Len(request.team_b_players) :
          game.team_b.players[i].name = request.team_b_players[i]
    /\ game.current_turn = "team_a"
    /\ game.current_round = 1
    /\ game.status = "active"
    /\ game.winner = Null
    /\ game.used_movie_ids = << >>
    /\ game.settings.timer_seconds = request.timer_seconds
    /\ game.settings.total_rounds = request.total_rounds
    /\ game.settings.difficulty = request.difficulty

C10_DifficultyFilter ==
    /\ (response.op = "get_random_movie" /\ response.status = 200
          /\ response.request.difficulty \in Difficulties)
        => /\ response.body.difficulty = response.request.difficulty
           /\ HINDI_MOVIES[response.body.title].difficulty = response.request.difficulty
    /\ response = NoResponse =>
          \A m \in movies :
              ENABLED (GetRandomMovie("all", {}) /\ response'.status = 200
                         /\ response'.body = m)

\* A hard movie was returned with the easy movies excluded, the collection
\* holding the catalogue twice.
C10_Witness ==
    /\ response.op = "get_random_movie"
    /\ response.status = 200
    /\ response.request.difficulty = "hard"
    /\ response.request.exclude_list # {}
    /\ response.body.difficulty = "hard"
    /\ Cardinality(movies) = 2 * Len(HINDI_MOVIES)

\* C11: get_random_movie never returns a movie whose id is in the
\* caller's exclusion list, whatever the list and the difficulty filter.
C11_ExcludedNeverReturned ==
    (response.op = "get_random_movie" /\ response.status = 200)
        => response.body.id \notin response.request.exclude_list

\* An easy movie was returned with another easy movie's id excluded.
C11_Witness ==
    /\ response.op = "get_random_movie"
    /\ response.status = 200
    /\ response.request.difficulty = "easy"
    /\ Cardinality(response.request.exclude_list) = 1
    /\ \E m \in movies : m.id \in response.request.exclude_list /\ m.difficulty = "easy"
    /\ response.body.difficulty = "easy"

\* The stored movies a request may be answered with, by the claim's words.
Eligible(difficulty, exclude_list) ==
    {m \in movies : /\ difficulty \in Difficulties => m.difficulty = difficulty
                    /\ m.id \notin exclude_list}

\* C12: get_random_movie fails with NotFound ("No movies available")
\* exactly when no stored movie matches the difficulty filter and is outside
\* the exclusion list; in every other case it returns such a movie.
C12_NotFoundIffNoneEligible ==
    [][(response'.op = "get_random_movie" /\ response' # response
          /\ response'.request.difficulty \in Difficulties \cup {"all"})
        => LET eligible == Eligible(response'.request.difficulty,
                                    response'.request.exclude_list)
           IN  /\ response'.status = 404 <=> eligible = {}
               /\ response'.status = 404 => response'.body = "No movies available"
               /\ response'.status # 404 =>
                     response'.status = 200 /\ response'.body \in eligible]_vars

\* NotFound for easy, every stored easy movie excluded and others stored.
C12_Witness ==
    /\ response.op = "get_random_movie"
    /\ response.status = 404
    /\ response.request.difficulty = "easy"
    /\ response.request.exclude_list # {}
    /\ movies # {}
    /\ \A m \in movies : m.difficulty = "easy" => m.id \in response.request.exclude_list

EasyStored == {m \in movies : m.difficulty = "easy"}

C14_AddUsedMovieAppends ==
    [][\A game_id \in GameIdInputs, movie_id \in MovieIdInputs :
         AddUsedMovie(game_id, movie_id) =>
           IF game_id \in GameIds
             THEN LET before == StoredGame(game_id)
                      after == StoredGame(game_id)'
                  IN  /\ response'.status = 200
                      /\ GameIds' = GameIds
                      /\ Len(after.used_movie_ids) = Len(before.used_movie_ids) + 1
                      /\ after.used_movie_ids[Len(after.used_movie_ids)] = movie_id
                      /\ \A i \in 1..Len(before.used_movie_ids) :
                            after.used_movie_ids[i] = before.used_movie_ids[i]
                      /\ \A f \in DOMAIN before \ {"used_movie_ids"} :
                            after[f] = before[f]
                      /\ DOMAIN after = DOMAIN before
             ELSE /\ response'.status = 404
                  /\ response'.body = "Game not found"
                  /\ games' = games
                  /\ movies' = movies]_vars

\* The same movie id was recorded twice on a game.
C14_Witness ==
    /\ response.op = "add_used_movie"
    /\ response.status = 200
    /\ \E g \in games :
          /\ g.id = response.request.game_id
          /\ Len(g.used_movie_ids) = 2
          /\ g.used_movie_ids[1] = response.request.movie_id
          /\ g.used_movie_ids[2] = response.request.movie_id

\* The ids in a used_movie_ids list.
UsedSet(g) == {g.used_movie_ids[i] : i \in 1..Len(g.used_movie_ids)}

\* C15: a game's used_movie_ids is append-only: no step removes an id from
\* the list of a game that stays stored, also when an add_used_movie request
\* overlaps a turn submission that read the game before the append and
\* writes it back afterwards.
C15_UsedAppendOnly ==
    [][\A g \in games : \A h \in games' :
          h.id = g.id => UsedSet(g) \subseteq UsedSet(h)]_vars

\* C16: a deleted game stays deleted: no deleted id is ever stored again,
\* also when a turn submission that read the game before the delete writes
\* after it; every get_game, submit_turn, add_used_movie and delete_game
\* that starts on a deleted id answers NotFound; delete_game on an id that
\* is not stored answers NotFound and a successful one removes the game.
C16_DeletedForGood ==
    [][/\ deleted' \cap GameIds' = {}
       /\ \A game_id \in deleted :
            /\ GetGame(game_id) => response' = NotFound("get_game", game_id)
            /\ \A correct \in BOOLEAN :
                 SubmitTurnRead(game_id, correct) =>
                    /\ response' = NotFound("submit_turn", game_id)
                    /\ pending' = pending
            /\ \A movie_id \in MovieIdInputs :
                 AddUsedMovie(game_id, movie_id) =>
                    response' = NotFound("add_used_movie", game_id)
            /\ DeleteGame(game_id) => response' = NotFound("delete_game", game_id)
       /\ \A game_id \in GameIdInputs :
            DeleteGame(game_id) =>
               /\ game_id \notin GameIds'
               /\ game_id \notin GameIds => response'.status = 404 /\ games' = games
               /\ game_id \in GameIds => response'.status = 200]_vars

\* A turn submission that read the game before it was deleted has written
\* and answered after the delete, and the game is not stored.
C16_Witness ==
    /\ response.op = "submit_turn"
    /\ response.status = 200
    /\ response.request.game_id \in deleted
    /\ response.request.game_id \notin GameIds

C21_DifficultyCountsAddUp ==
    /\ (response.op = "get_stats" /\ response.quiet) =>
          response.body.easy_movies + response.body.medium_movies
             + response.body.hard_movies = response.body.total_movies
    /\ \A m \in movies : m.difficulty \in Difficulties

\* get_stats, no seeding in progress, counted the seeded catalogue.
C21_Witness ==
    /\ response.op = "get_stats"
    /\ response.quiet
    /\ response.body.total_movies = Len(HINDI_MOVIES)
    /\ response.body.hard_movies = HardEntries

\* C22: seeding is idempotent: once every startup event and seed-movies
\* request that started has finished, the movie collection holds exactly
\* one record per entry of the static catalogue, also when the delete and
\* insert steps of seed-movies requests overlapped.
C22_SeedingIdempotent ==
    (seeds > 0 /\ Seeding = {}) =>
        /\ Cardinality(movies) = Len(HINDI_MOVIES)
        /\ \A i \in 1..Len(HINDI_MOVIES) :
              Cardinality({m \in movies : m.title = HINDI_MOVIES[i].title}) = 1

\* C23: on a game created with total_rounds = N >= 1, turns submitted one at
\* a time, the game is active after each of the first 2N-1 submissions and
\* becomes completed on the 2N-th, a team_b turn, whatever the correct
\* flags; so every such game is eventually completed if turns keep being
\* submitted.
C23_CompletedOnLastTurn ==
    /\ [][\A game_id \in GameIds, correct \in BOOLEAN :
           (SubmitTurn(game_id, correct)
              /\ StoredGame(game_id).settings.total_rounds >= 1) =>
             LET before == StoredGame(game_id)
                 after == StoredGame(game_id)'
                 N == before.settings.total_rounds
                 k == applied'[game_id].n
             IN  /\ k < 2 * N => /\ before.status = "active"
                                 /\ after.status = "active"
                 /\ k = 2 * N => /\ before.status = "active"
                                 /\ before.current_turn = "team_b"
                                 /\ after.status = "completed"
                 /\ k > 2 * N => after.status = "completed"]_vars
    /\ \A N \in 1..MaxRounds :
          (\E g \in games : g.settings.total_rounds = N)
             ~> (\E g \in games : /\ g.settings.total_rounds = N
                                  /\ g.status = "completed")

\* The fourth turn of a game of two rounds, a correct one after a wrong one
\* was counted, has completed it.
C23_Witness ==
    /\ TurnServed
    /\ response.request.correct
    /\ response.body.settings.total_rounds = 2
    /\ response.body.status = "completed"
    /\ response.request.game_id \in DOMAIN applied
    /\ applied[response.request.game_id].n = 4
    /\ applied[response.request.game_id].c < 4

\* C24: the outcome of a game is final: once a stored game has a winner, no
\* step changes the winner or the score of either team of that game,
\* whatever is applied to it afterwards.
C24_OutcomeFinal ==
    [][\A g \in games :
         g.winner # Null =>
            \A h \in games' :
               h.id = g.id => /\ h.winner = g.winner
                              /\ h.team_a.score = g.team_a.score
                              /\ h.team_b.score = g.team_b.score]_vars
=============================================================================
